---- MODULE Spec2Model ----
(***************************************************************************)
(* Model of the price calculator of src/app.py: the form validator, the    *)
(* record constructor, the pricing functions and the index() request       *)
(* handler with its flashed messages.                                      *)
(*                                                                         *)
(* Python numbers are records [k, v, s]:                                   *)
(*   k = "int"  the int v                                                  *)
(*   k = "big"  an int whose magnitude exceeds the float range, sign v     *)
(*   k = "fin"  the finite float v / 10^s, kept normalised                 *)
(*   k = "inf"  the float infinity of sign v                               *)
(*   k = "nan"  the float NaN                                              *)
(*   any other k is the name of the exception the evaluation raised.       *)
(* Finite float arithmetic is exact decimal arithmetic: the rounding of a  *)
(* binary double below one unit in the last place is not represented.      *)
(***************************************************************************)
EXTENDS Integers, Sequences, FiniteSets, TLC

VARIABLES
    fase,             \* "idle", "respondido" (a response was returned), "entrada", "calculado"
    method,           \* request.method of the request being answered
    form,             \* request.form: field -> string, Absent for a missing key
    dados,            \* the DadosEntrada in hand, None when there is none
    resultado,        \* the ResultadoCalculo in hand, None when there is none
    calculou,         \* calcular_precificacao was called for this request
    resposta,         \* the rendered page: flashed messages shown, result block
    session_flashes   \* the session's queue of flashed messages not yet shown

vars == <<fase, method, form, dados, resultado, calculou, resposta, session_flashes>>

\* ------------------------------------------------------------------ bounds
MaxOdd == 2      \* fields of a submitted form that differ from the example form
MaxEmp == 1      \* employee counts within MaxEmp of 0 and of the tier limit
MaxAud == 1      \* hearing counts 0..MaxAud next to the example's 3 and 8

\* --------------------------------------------------------- program constants
LimiteFaixa == 100   \* min(n_emp, 100), max(0, n_emp - 100)
MargemMax == 10      \* if m > 10

\* ------------------------------------------------------------ Python values
Int_(n) == [k |-> "int", v |-> n, s |-> 0]
Big == [k |-> "big", v |-> 1, s |-> 0]
Inf == [k |-> "inf", v |-> 1, s |-> 0]
NegInf == [k |-> "inf", v |-> -1, s |-> 0]
NaN == [k |-> "nan", v |-> 0, s |-> 0]
Raise(exc) == [k |-> exc, v |-> 0, s |-> 0]
None == [k |-> "None"]

\* the exceptions the program's operations raise
Exceptions == {"ValueError", "KeyError", "OverflowError"}

IsRaise(x) == x.k \in Exceptions

RECURSIVE Norm(_, _)
Norm(v, s) == IF s > 0 /\ v % 10 = 0 THEN Norm(v \div 10, s - 1)
              ELSE [k |-> "fin", v |-> v, s |-> s]

Fin(v, s) == Norm(v, s)

RECURSIVE Pow10(_)
Pow10(n) == IF n = 0 THEN 1 ELSE 10 * Pow10(n - 1)

Sign(n) == IF n > 0 THEN 1 ELSE IF n < 0 THEN -1 ELSE 0

\* float(x) of an int or a float: an int beyond the float range raises
ToFloat(x) ==
    CASE x.k = "int" -> Fin(x.v, 0)
      [] x.k = "big" -> Raise("OverflowError")
      [] OTHER -> x

\* a * b on two floats
FMul(a, b) ==
    CASE IsRaise(a) -> a
      [] IsRaise(b) -> b
      [] a.k = "nan" \/ b.k = "nan" -> NaN
      [] a.k = "inf" /\ b.k = "inf" -> [k |-> "inf", v |-> a.v * b.v, s |-> 0]
      [] a.k = "inf" -> IF b.v = 0 THEN NaN ELSE [k |-> "inf", v |-> a.v * Sign(b.v), s |-> 0]
      [] b.k = "inf" -> IF a.v = 0 THEN NaN ELSE [k |-> "inf", v |-> b.v * Sign(a.v), s |-> 0]
      [] OTHER -> Fin(a.v * b.v, a.s + b.s)

\* a + b on two floats
FAdd(a, b) ==
    CASE IsRaise(a) -> a
      [] IsRaise(b) -> b
      [] a.k = "nan" \/ b.k = "nan" -> NaN
      [] a.k = "inf" /\ b.k = "inf" -> IF a.v = b.v THEN a ELSE NaN
      [] a.k = "inf" -> a
      [] b.k = "inf" -> b
      [] OTHER -> LET e == IF a.s > b.s THEN a.s ELSE b.s
                  IN  Fin(a.v * Pow10(e - a.s) + b.v * Pow10(e - b.s), e)

\* Python's a * b and a + b with an int or float on either side
Mul(a, b) == FMul(ToFloat(a), ToFloat(b))
Add(a, b) == FAdd(ToFloat(a), ToFloat(b))

\* a - b on two ints
IntSub(a, b) ==
    CASE a.k = "big" /\ b.k = "big" -> IF a.v = b.v THEN Int_(0) ELSE a
      [] a.k = "big" -> a
      [] b.k = "big" -> [k |-> "big", v |-> -b.v, s |-> 0]
      [] OTHER -> Int_(a.v - b.v)

\* a < b for ints and floats (every comparison with NaN is False)
Lt(a, b) ==
    CASE a.k = "nan" \/ b.k = "nan" -> FALSE
      [] a.k = "big" /\ b.k = "inf" -> b.v > 0
      [] a.k = "inf" /\ b.k = "big" -> a.v < 0
      [] a.k \in {"big", "inf"} /\ b.k \in {"big", "inf"} -> a.v < b.v
      [] a.k \in {"big", "inf"} -> a.v < 0
      [] b.k \in {"big", "inf"} -> b.v > 0
      [] OTHER -> LET e == IF a.s > b.s THEN a.s ELSE b.s
                  IN  a.v * Pow10(e - a.s) < b.v * Pow10(e - b.s)

\* a == b as Python evaluates it (NaN is equal to nothing)
PyEq(a, b) == ~IsRaise(a) /\ ~IsRaise(b) /\ ~Lt(a, b) /\ ~Lt(b, a)
              /\ a.k # "nan" /\ b.k # "nan"

PyMin(a, b) == IF Lt(b, a) THEN b ELSE a
PyMax(a, b) == IF Lt(a, b) THEN b ELSE a

\* ------------------------------------------------------- form fields, parsing
Fields == {"F_base", "N_emp", "Rp1", "Rp2", "N_loc", "R_loc",
           "Aud_incl", "N_aud", "R_aud", "m"}

\* a field the request does not carry (not a string a client can send)
Absent == "<absent>"

\* the decimal string of 10^400: an int literal beyond the float range
BigTok == "1e400 written out in digits"

\* the value of a string in int syntax, NaN (never an int) for any other
IntLiteral(t) ==
    CASE t = "-1" -> Int_(-1)
      [] t = "0" -> Int_(0)
      [] t = "1" -> Int_(1)
      [] t = "3" -> Int_(3)
      [] t = "5" -> Int_(5)
      [] t = "8" -> Int_(8)
      [] t = "25" -> Int_(25)
      [] t = "30" -> Int_(30)
      [] t = "50" -> Int_(50)
      [] t = "150" -> Int_(150)
      [] t = "200" -> Int_(200)
      [] t = "1000" -> Int_(1000)
      [] t = BigTok -> Big
      [] OTHER -> NaN

\* int(t) of a string: only int syntax parses
IntOfStr(t) == IF IntLiteral(t).k = "nan" THEN Raise("ValueError") ELSE IntLiteral(t)

\* float(t) of a string: int syntax, decimals, "inf" and "nan" parse; a
\* literal beyond the float range gives inf
FloatOfStr(t) ==
    CASE t = "inf" -> Inf
      [] t = "-inf" -> NegInf
      [] t = "nan" -> NaN
      [] t = "0.20" -> Fin(20, 2)
      [] t = "1.5" -> Fin(15, 1)
      [] t = BigTok -> Inf
      [] IntLiteral(t).k = "int" -> ToFloat(IntLiteral(t))
      [] OTHER -> Raise("ValueError")

\* float(form_data.get(k, 0)) and int(form_data.get(k, 0))
FloatGet(f, k) == IF f[k] = Absent THEN ToFloat(Int_(0)) ELSE FloatOfStr(f[k])
IntGet(f, k) == IF f[k] = Absent THEN Int_(0) ELSE IntOfStr(f[k])

\* float(form_data[k]) and int(form_data[k])
FloatItem(f, k) == IF f[k] = Absent THEN Raise("KeyError") ELSE FloatOfStr(f[k])
IntItem(f, k) == IF f[k] = Absent THEN Raise("KeyError") ELSE IntOfStr(f[k])

\* the first exception a record's ten conversions raise, "" when none does
FirstRaise(p) ==
    LET order == <<"F_base", "N_emp", "Rp1", "Rp2", "N_loc", "R_loc",
                   "Aud_incl", "N_aud", "R_aud", "m">>
        bad == {i \in 1..10 : IsRaise(p[order[i]])}
    IN  IF bad = {} THEN ""
        ELSE p[order[CHOOSE i \in bad : \A j \in bad : i <= j]].k

\* ------------------------------------------------------------------ messages
MsgFBase == "O valor base deve ser positivo"
MsgNEmp == "O numero de funcionarios deve ser positivo"
MsgRp == "As tarifas de funcionarios devem ser positivas"
MsgNLoc == "O numero de postos deve ser positivo"
MsgRLoc == "A tarifa por posto deve ser positiva"
MsgAudNeg == "O numero de audiencias deve ser positivo"
MsgAudTotal == "O numero total de audiencias deve ser maior ou igual as audiencias incluidas"
MsgRAud == "A tarifa por audiencia extra deve ser positiva"
MsgMNeg == "A margem de lucro deve ser positiva (ex: 0.20 para 20%)"
MsgMAlta == "A margem de lucro parece muito alta. Use valores decimais (ex: 0.20 para 20%)"
MsgDados == "Erro nos dados informados. Verifique se todos os campos estao preenchidos corretamente"
MsgValidacao == "Erro inesperado na validacao"
MsgSucesso == "Calculo realizado com sucesso!"
MsgProcessar == "Erro ao processar os dados. Verifique os valores informados."
MsgCalculo == "Erro inesperado no calculo"

\* ------------------------------------------------------------------ validator
\* the ten conversions of validar_dados_entrada
ValidarParse(f) ==
    [F_base |-> FloatGet(f, "F_base"), N_emp |-> IntGet(f, "N_emp"),
     Rp1 |-> FloatGet(f, "Rp1"), Rp2 |-> FloatGet(f, "Rp2"),
     N_loc |-> IntGet(f, "N_loc"), R_loc |-> FloatGet(f, "R_loc"),
     Aud_incl |-> IntGet(f, "Aud_incl"), N_aud |-> IntGet(f, "N_aud"),
     R_aud |-> FloatGet(f, "R_aud"), m |-> FloatGet(f, "m")]

\* the i-th if statement of the business rules: <<condition, message>>
Regra(p, i) ==
    CASE i = 1 -> <<Lt(p.F_base, Int_(0)), MsgFBase>>
      [] i = 2 -> <<Lt(p.N_emp, Int_(0)), MsgNEmp>>
      [] i = 3 -> <<Lt(p.Rp1, Int_(0)) \/ Lt(p.Rp2, Int_(0)), MsgRp>>
      [] i = 4 -> <<Lt(p.N_loc, Int_(0)), MsgNLoc>>
      [] i = 5 -> <<Lt(p.R_loc, Int_(0)), MsgRLoc>>
      [] i = 6 -> <<Lt(p.Aud_incl, Int_(0)) \/ Lt(p.N_aud, Int_(0)), MsgAudNeg>>
      [] i = 7 -> <<Lt(p.N_aud, p.Aud_incl), MsgAudTotal>>
      [] i = 8 -> <<Lt(p.R_aud, Int_(0)), MsgRAud>>
      [] i = 9 -> <<Lt(p.m, Int_(0)), MsgMNeg>>
      [] i = 10 -> <<Lt(Int_(MargemMax), p.m), MsgMAlta>>

\* the rules without the check of R_loc
Regras_semRLoc(p) == [i \in 1..9 |-> Regra(p, IF i < 5 THEN i ELSE i + 1)]

\* the rules without the check of N_aud against Aud_incl
Regras_semAudTotal(p) == [i \in 1..9 |-> Regra(p, IF i < 7 THEN i ELSE i + 1)]

\* the rules with the check of R_aud ahead of the check of N_aud against Aud_incl
Regras_RAudAntes(p) == [i \in 1..10 |-> Regra(p, IF i = 7 THEN 8 ELSE IF i = 8 THEN 7 ELSE i)]

\* the business rules in the order of the if statements
Regras(p) == [i \in 1..10 |-> Regra(p, i)]

\* the return of the first if statement whose condition holds
PrimeiraViolada(rs) ==
    LET bad == {i \in 1..Len(rs) : rs[i][1]}
    IN  IF bad = {} THEN [valido |-> TRUE, mensagem |-> "", raised |-> ""]
        ELSE [valido |-> FALSE,
              mensagem |-> rs[CHOOSE i \in bad : \A j \in bad : i <= j][2],
              raised |-> ""]

\* the try block of validar_dados_entrada
ValidarTry(f) ==
    LET p == ValidarParse(f)
    IN  IF FirstRaise(p) # "" THEN [valido |-> FALSE, mensagem |-> "", raised |-> FirstRaise(p)]
        ELSE PrimeiraViolada(Regras(p))

\* validar_dados_entrada without its except clauses
ValidarExcept_semExcept(r) == r

\* the two except clauses of validar_dados_entrada
ValidarExcept(r) ==
    CASE r.raised = "" -> r
      [] r.raised = "ValueError" -> [valido |-> FALSE, mensagem |-> MsgDados, raised |-> ""]
      [] OTHER -> [valido |-> FALSE, mensagem |-> MsgValidacao, raised |-> ""]

validar_dados_entrada(f) == ValidarExcept(ValidarTry(f))

\* --------------------------------------------------------- record constructor
ProcessarParse(f) ==
    [F_base |-> FloatItem(f, "F_base"), N_emp |-> IntItem(f, "N_emp"),
     Rp1 |-> FloatItem(f, "Rp1"), Rp2 |-> FloatItem(f, "Rp2"),
     N_loc |-> IntItem(f, "N_loc"), R_loc |-> FloatItem(f, "R_loc"),
     Aud_incl |-> IntItem(f, "Aud_incl"), N_aud |-> IntItem(f, "N_aud"),
     R_aud |-> FloatItem(f, "R_aud"), m |-> FloatItem(f, "m")]

\* a DadosEntrada, None on ValueError or KeyError
processar_dados_formulario(f) ==
    LET p == ProcessarParse(f)
    IN  IF FirstRaise(p) \in {"ValueError", "KeyError"} THEN None ELSE p

\* ------------------------------------------------------------------- pricing
\* every employee charged at rp1, the tier limit not applied to the first term
calcular_custo_funcionarios_semMin(n_emp, rp1, rp2) ==
    Add(Mul(n_emp, rp1),
        Mul(PyMax(Int_(0), IntSub(n_emp, Int_(LimiteFaixa))), rp2))

calcular_custo_funcionarios(n_emp, rp1, rp2) ==
    Add(Mul(PyMin(n_emp, Int_(LimiteFaixa)), rp1),
        Mul(PyMax(Int_(0), IntSub(n_emp, Int_(LimiteFaixa))), rp2))

calcular_custo_postos(n_loc, r_loc) == Mul(n_loc, r_loc)

\* the difference charged without max(0, .)
calcular_custo_audiencias_extras_semMax(n_aud, aud_incl, r_aud) ==
    Mul(IntSub(n_aud, aud_incl), r_aud)

calcular_custo_audiencias_extras(n_aud, aud_incl, r_aud) ==
    Mul(PyMax(Int_(0), IntSub(n_aud, aud_incl)), r_aud)

\* the gross cost summed without the extra-hearing cost
calcular_precificacao_semAud(d) ==
    LET C_emp == calcular_custo_funcionarios(d.N_emp, d.Rp1, d.Rp2)
        C_loc == calcular_custo_postos(d.N_loc, d.R_loc)
        C_aud == calcular_custo_audiencias_extras(d.N_aud, d.Aud_incl, d.R_aud)
        Custo_bruto == Add(Add(d.F_base, C_emp), C_loc)
        Preco == Mul(Custo_bruto, Add(Int_(1), d.m))
    IN  CASE IsRaise(C_emp) -> C_emp
          [] IsRaise(C_loc) -> C_loc
          [] IsRaise(C_aud) -> C_aud
          [] IsRaise(Custo_bruto) -> Custo_bruto
          [] IsRaise(Preco) -> Preco
          [] OTHER -> [k |-> "ResultadoCalculo", C_emp |-> C_emp, C_loc |-> C_loc, C_aud |-> C_aud,
                       Custo_bruto |-> Custo_bruto, Preco |-> Preco]

\* a ResultadoCalculo, or the exception an operation raised
calcular_precificacao(d) ==
    LET C_emp == calcular_custo_funcionarios(d.N_emp, d.Rp1, d.Rp2)
        C_loc == calcular_custo_postos(d.N_loc, d.R_loc)
        C_aud == calcular_custo_audiencias_extras(d.N_aud, d.Aud_incl, d.R_aud)
        Custo_bruto == Add(Add(Add(d.F_base, C_emp), C_loc), C_aud)
        Preco == Mul(Custo_bruto, Add(Int_(1), d.m))
    IN  CASE IsRaise(C_emp) -> C_emp
          [] IsRaise(C_loc) -> C_loc
          [] IsRaise(C_aud) -> C_aud
          [] IsRaise(Custo_bruto) -> Custo_bruto
          [] IsRaise(Preco) -> Preco
          [] OTHER -> [k |-> "ResultadoCalculo", C_emp |-> C_emp, C_loc |-> C_loc, C_aud |-> C_aud,
                       Custo_bruto |-> Custo_bruto, Preco |-> Preco]

\* ------------------------------------------------------------ request handler
\* flash(message, category)
flash(fl, message, category) == Append(fl, <<category, message>>)

\* index() whose "if dados" has no else branch: success is flashed either way
index_semElse(mth, f, fl) ==
    LET quiet == [dados |-> None, resultado |-> None, calculou |-> FALSE,
                  flashes |-> fl, escaped |-> ""]
    IN
    IF mth # "POST" THEN quiet
    ELSE
      LET v == validar_dados_entrada(f)
          d == processar_dados_formulario(f)
          r == calcular_precificacao(d)
      IN  CASE v.raised # "" -> [quiet EXCEPT !.escaped = v.raised]
            [] ~v.valido -> [quiet EXCEPT !.flashes = flash(fl, v.mensagem, "error")]
            [] d = None -> [quiet EXCEPT !.flashes = flash(fl, MsgSucesso, "success")]
            [] IsRaise(r) -> [quiet EXCEPT !.dados = d, !.calculou = TRUE,
                                           !.flashes = flash(fl, MsgCalculo, "error")]
            [] OTHER -> [dados |-> d, resultado |-> r, calculou |-> TRUE,
                         flashes |-> flash(fl, MsgSucesso, "success"), escaped |-> ""]

\* the body of index() up to the return statement
index(mth, f, fl) ==
    LET quiet == [dados |-> None, resultado |-> None, calculou |-> FALSE,
                  flashes |-> fl, escaped |-> ""]
    IN
    IF mth # "POST" THEN quiet
    ELSE
      LET v == validar_dados_entrada(f)
          d == processar_dados_formulario(f)
          r == calcular_precificacao(d)
      IN  CASE v.raised # "" -> [quiet EXCEPT !.escaped = v.raised]
            [] ~v.valido -> [quiet EXCEPT !.flashes = flash(fl, v.mensagem, "error")]
            [] d = None -> [quiet EXCEPT !.flashes = flash(fl, MsgProcessar, "error")]
            [] IsRaise(r) -> [quiet EXCEPT !.dados = d, !.calculou = TRUE,
                                           !.flashes = flash(fl, MsgCalculo, "error")]
            [] OTHER -> [dados |-> d, resultado |-> r, calculou |-> TRUE,
                         flashes |-> flash(fl, MsgSucesso, "success"), escaped |-> ""]

\* the messages shown but left in the session
get_flashed_messages_semPop(fl) == [messages |-> fl, session |-> fl]

\* get_flashed_messages(with_categories=true) in the template: the queue is
\* shown and removed from the session
get_flashed_messages(fl) == [messages |-> fl, session |-> <<>>]

\* the page without a response body: an exception left index()
NoPage == [status |-> 500, mensagens |-> <<>>, resultado |-> None]
NoResponse == [status |-> 0, mensagens |-> <<>>, resultado |-> None]

\* render_template_string(HTML, resultado=resultado): the messages block and
\* the {% if resultado %} block
render_template_string(fl, res) ==
    [status |-> 200, mensagens |-> get_flashed_messages(fl).messages, resultado |-> res]

\* ---------------------------------------------------------------- the inputs
\* the example form of the specification
Exemplo ==
    [k \in Fields |->
        CASE k = "F_base" -> "1000" [] k = "N_emp" -> "50" [] k = "Rp1" -> "25"
          [] k = "Rp2" -> "30" [] k = "N_loc" -> "5" [] k = "R_loc" -> "200"
          [] k = "Aud_incl" -> "3" [] k = "N_aud" -> "8" [] k = "R_aud" -> "150"
          [] k = "m" -> "0.20"]

\* what a deviating field carries
Odd == {Absent, "", "abc", "-1", "0", "150", "1.5", "inf", "nan", BigTok}

NoForm == [k \in Fields |-> Absent]

\* ------------------------------------------------------------------- actions
Init ==
    /\ fase = "idle"
    /\ method = ""
    /\ form = NoForm
    /\ dados = None
    /\ resultado = None
    /\ calculou = FALSE
    /\ resposta = NoResponse
    /\ session_flashes = <<>>

\* one request answered by index()
Serve(mth, f) ==
    LET r == index(mth, f, session_flashes)
    IN  /\ fase = "idle"
        /\ fase' = "respondido"
        /\ method' = mth
        /\ form' = f
        /\ dados' = r.dados
        /\ resultado' = r.resultado
        /\ calculou' = r.calculou
        /\ IF r.escaped # ""
           THEN /\ resposta' = NoPage
                /\ session_flashes' = r.flashes
           ELSE /\ resposta' = render_template_string(r.flashes, r.resultado)
                /\ session_flashes' = get_flashed_messages(r.flashes).session

Get == Serve("GET", NoForm)

Post ==
    \E D \in {X \in SUBSET Fields : Cardinality(X) <= MaxOdd} :
      \E g \in [D -> Odd] :
        Serve("POST", [k \in Fields |-> IF k \in D THEN g[k] ELSE Exemplo[k]])

\* the response has been returned: the request, its locals and the page are gone
Teardown ==
    /\ fase = "respondido"
    /\ fase' = "idle"
    /\ method' = ""
    /\ form' = NoForm
    /\ dados' = None
    /\ resultado' = None
    /\ calculou' = FALSE
    /\ resposta' = NoResponse
    /\ UNCHANGED session_flashes

Next == Get \/ Post \/ Teardown

Spec == Init /\ [][Next]_vars

\* ------------------------------------------- the pricing functions on their own
EmpCounts == {Int_(n) : n \in (0..MaxEmp) \cup ((LimiteFaixa - MaxEmp)..(LimiteFaixa + MaxEmp))}
             \cup {Int_(50), Int_(150), Big}
AudCounts == {Int_(n) : n \in 0..MaxAud} \cup {Int_(3), Int_(8), Big}

DadosSet ==
    [F_base : {Fin(1000, 0), Inf}, N_emp : EmpCounts,
     Rp1 : {Fin(0, 0), Fin(25, 0), Inf}, Rp2 : {Fin(30, 0), Fin(15, 1), Inf},
     N_loc : {Int_(0), Int_(5), Big}, R_loc : {Fin(200, 0), Inf},
     Aud_incl : AudCounts, N_aud : AudCounts,
     R_aud : {Fin(0, 0), Fin(150, 0), Inf}, m : {Fin(0, 0), Fin(20, 2), Fin(10, 0), NaN}]

InitCalc ==
    /\ fase = "entrada"
    /\ method = ""
    /\ form = NoForm
    /\ dados \in DadosSet
    /\ resultado = None
    /\ calculou = FALSE
    /\ resposta = NoResponse
    /\ session_flashes = <<>>

Calcular ==
    /\ fase = "entrada"
    /\ fase' = "calculado"
    /\ resultado' = calcular_precificacao(dados)
    /\ calculou' = TRUE
    /\ UNCHANGED <<method, form, dados, resposta, session_flashes>>

NextCalc == Calcular

SpecCalc == InitCalc /\ [][NextCalc]_vars

\* ===================================================================== claims
\* x >= 0 and x <= y as Python evaluate them
Ge0(x) == x.k # "nan" /\ ~Lt(x, Int_(0))
Le(x, y) == x.k # "nan" /\ y.k # "nan" /\ ~Lt(y, x)

\* a finite float or an int within the float range
Finite(x) == x.k \in {"int", "fin"}

\* the finite value x in units of 10^-e
Units(x, e) == x.v * Pow10(e - x.s)

AllFinite(d) == \A f \in Fields : Finite(d[f])

ExemploDados ==
    [F_base |-> Fin(1000, 0), N_emp |-> Int_(50), Rp1 |-> Fin(25, 0), Rp2 |-> Fin(30, 0),
     N_loc |-> Int_(5), R_loc |-> Fin(200, 0), Aud_incl |-> Int_(3), N_aud |-> Int_(8),
     R_aud |-> Fin(150, 0), m |-> Fin(20, 2)]

ExemploResultado ==
    [k |-> "ResultadoCalculo", C_emp |-> Fin(1250, 0), C_loc |-> Fin(1000, 0),
     C_aud |-> Fin(750, 0), Custo_bruto |-> Fin(4000, 0), Preco |-> Fin(4800, 0)]

\* the precondition of C1: non-negative fields, N_aud >= Aud_incl, 0 <= m <= 10
C1Pre(d) ==
    /\ \A f \in Fields : Ge0(d[f])
    /\ Le(d.Aud_incl, d.N_aud)
    /\ Le(d.m, Int_(MargemMax))

Respondeu == fase = "respondido"
RespondeuPost == fase = "respondido" /\ method = "POST"

\* all ten conversions of the validator succeed
Parses(f) == FirstRaise(ValidarParse(f)) = ""

NonNegFields == Fields \ {"m"}

\* the messages of the business rules
RuleMsgs == {MsgFBase, MsgNEmp, MsgRp, MsgNLoc, MsgRLoc, MsgAudNeg, MsgAudTotal,
             MsgRAud, MsgMNeg, MsgMAlta}

\* the messages of the non-negativity rules of the nine monetary/count fields
NonNegMsgs == {MsgFBase, MsgNEmp, MsgRp, MsgNLoc, MsgRLoc, MsgAudNeg, MsgRAud}

AnyNegative(p) == \E k \in NonNegFields : Lt(p[k], Int_(0))

\* C4: a POST whose ten fields parse and one of whose nine monetary/count
\* fields is negative is rejected by the validator with a rule-violation
\* message, calcular_precificacao is not called and no result is rendered.
C4_Theorem ==
    (RespondeuPost /\ Parses(form) /\ AnyNegative(ValidarParse(form))) =>
        /\ ~validar_dados_entrada(form).valido
        /\ validar_dados_entrada(form).mensagem \in RuleMsgs
        /\ resposta.mensagens = << <<"error", validar_dados_entrada(form).mensagem>> >>
        /\ ~calculou
        /\ resultado = None
        /\ resposta.resultado = None

C4_Witness ==
    /\ RespondeuPost
    /\ form = [Exemplo EXCEPT !["R_loc"] = "-1", !["m"] = "nan"]
    /\ resposta.mensagens = << <<"error", MsgRLoc>> >>
    /\ ~calculou

\* C5: a form whose parsed N_aud is less than its parsed Aud_incl is rejected
\* by the validator whatever the other fields are, and no result is produced.
C5_Theorem ==
    (RespondeuPost
     /\ ~IsRaise(IntGet(form, "N_aud")) /\ ~IsRaise(IntGet(form, "Aud_incl"))
     /\ Lt(IntGet(form, "N_aud"), IntGet(form, "Aud_incl"))) =>
        /\ ~validar_dados_entrada(form).valido
        /\ ~calculou
        /\ resultado = None
        /\ resposta.resultado = None
        /\ Len(resposta.mensagens) = 1 /\ resposta.mensagens[1][1] = "error"

C5_Witness ==
    /\ RespondeuPost
    /\ form = [Exemplo EXCEPT !["N_aud"] = "0"]
    /\ resposta.mensagens = << <<"error", MsgAudTotal>> >>
    /\ resposta.resultado = None

\* C6 as stated: when all ten fields parse, the message is that of the first
\* violated rule in the order non-negativity of the nine monetary/count
\* fields, then N_aud >= Aud_incl, then the margin in [0, 10].
C6_Original ==
    LET p == ValidarParse(form)
        v == validar_dados_entrada(form)
    IN  (RespondeuPost /\ Parses(form)) =>
            CASE AnyNegative(p) -> ~v.valido /\ v.mensagem \in NonNegMsgs
              [] Lt(p.N_aud, p.Aud_incl) -> ~v.valido /\ v.mensagem = MsgAudTotal
              [] Lt(p.m, Int_(0)) -> ~v.valido /\ v.mensagem = MsgMNeg
              [] Lt(Int_(MargemMax), p.m) -> ~v.valido /\ v.mensagem = MsgMAlta
              [] OTHER -> v.valido

\* C6 amended: when all ten fields parse, the message is that of the first
\* violated rule in the order F_base, N_emp, Rp1 or Rp2, N_loc, R_loc,
\* Aud_incl or N_aud non-negative, then N_aud >= Aud_incl, then R_aud
\* non-negative, then m >= 0, then m <= 10: a form with both a negative
\* R_aud and N_aud < Aud_incl gets the total-hearings message.
C6_Theorem ==
    LET p == ValidarParse(form)
        v == validar_dados_entrada(form)
        neg(x) == Lt(x, Int_(0))
        expected ==
            CASE neg(p.F_base) -> MsgFBase
              [] neg(p.N_emp) -> MsgNEmp
              [] neg(p.Rp1) \/ neg(p.Rp2) -> MsgRp
              [] neg(p.N_loc) -> MsgNLoc
              [] neg(p.R_loc) -> MsgRLoc
              [] neg(p.Aud_incl) \/ neg(p.N_aud) -> MsgAudNeg
              [] Lt(p.N_aud, p.Aud_incl) -> MsgAudTotal
              [] neg(p.R_aud) -> MsgRAud
              [] neg(p.m) -> MsgMNeg
              [] Lt(Int_(MargemMax), p.m) -> MsgMAlta
              [] OTHER -> ""
    IN  (RespondeuPost /\ Parses(form)) =>
            /\ v.mensagem = expected
            /\ v.valido <=> expected = ""
            /\ ~v.valido => resposta.mensagens = << <<"error", expected>> >>

C6_Witness ==
    /\ RespondeuPost
    /\ form = [Exemplo EXCEPT !["R_aud"] = "-1", !["Aud_incl"] = "150"]
    /\ resposta.mensagens = << <<"error", MsgAudTotal>> >>

\* the request is a POST that passes validation, record construction and
\* calculation
PostSucceeds(mth, f) ==
    /\ mth = "POST"
    /\ validar_dados_entrada(f).valido
    /\ processar_dados_formulario(f) # None
    /\ ~IsRaise(calcular_precificacao(processar_dados_formulario(f)))

\* C7: the result block is rendered exactly for a POST that passed validation,
\* record construction and calculation, and then the only flashed message is
\* the success message; a failing POST renders an error message and no
\* result; a GET renders neither; a result and an error message never share
\* a response.
C7_Theorem ==
    Respondeu =>
        /\ resposta.resultado # None <=> PostSucceeds(method, form)
        /\ resposta.resultado # None =>
              /\ resposta.mensagens = << <<"success", MsgSucesso>> >>
              /\ resposta.resultado = calcular_precificacao(processar_dados_formulario(form))
        /\ (method = "POST" /\ ~PostSucceeds(method, form)) =>
              /\ resultado = None
              /\ Len(resposta.mensagens) = 1
              /\ resposta.mensagens[1][1] = "error"
        /\ method = "GET" => resposta.mensagens = <<>> /\ resposta.resultado = None
        /\ ~(resposta.resultado # None
             /\ \E i \in 1..Len(resposta.mensagens) : resposta.mensagens[i][1] = "error")

C7_Witness ==
    /\ RespondeuPost
    /\ form = Exemplo
    /\ resposta.resultado = ExemploResultado
    /\ resposta.mensagens = << <<"success", MsgSucesso>> >>

\* C8: every POST ends in a rendered page with exactly one flashed message,
\* and no exception leaves index().
C8_Theorem ==
    RespondeuPost =>
        /\ resposta.status = 200
        /\ Len(resposta.mensagens) = 1
        /\ resposta.mensagens[1][1] \in {"error", "success"}

\* an exception inside the calculation ends in the one error message
C8_Witness ==
    /\ RespondeuPost
    /\ form = [Exemplo EXCEPT !["N_loc"] = BigTok, !["R_aud"] = "inf"]
    /\ calculou
    /\ resposta.status = 200
    /\ resposta.mensagens = << <<"error", MsgCalculo>> >>

\* C9: the messages a request flashes are shown by the rendering of that same
\* request: no flashed message is pending when a request ends, and the page
\* is the one index() renders for the method and form from an empty queue.
C9_Theorem ==
    /\ session_flashes = <<>>
    /\ Respondeu =>
          LET r == index(method, form, <<>>)
          IN  /\ resposta = render_template_string(r.flashes, r.resultado)
              /\ Len(resposta.mensagens) <= 1

C9_Witness ==
    /\ RespondeuPost
    /\ form = [Exemplo EXCEPT !["m"] = "150"]
    /\ resposta.mensagens = << <<"error", MsgMAlta>> >>
    /\ session_flashes = <<>>

\* C10: whenever the validator accepts a form, absent fields included,
\* processar_dados_formulario returns a DadosEntrada whose ten fields are the
\* values the validator checked.
C10_Claim ==
    (RespondeuPost /\ validar_dados_entrada(form).valido) =>
        /\ processar_dados_formulario(form) # None
        /\ processar_dados_formulario(form) = ValidarParse(form)

====
